---- MODULE Spec2Model ----
(***************************************************************************)
(* Node reputation store of the satellite: the reputations table and the   *)
(* operations of satellitedb's reputations type (Update, SetNodeStatus,    *)
(* Get, DisqualifyNode, SuspendNodeUnknownAudit, UnsuspendNodeUnknownAudit,*)
(* Init), with the audit-outcome state machine of populateUpdateNodeStats. *)
(*                                                                         *)
(* float64 values are modelled exactly, as multiples of 1/Unit; the        *)
(* quotient behind a score is kept as a fraction, NaN for 0/0, and a       *)
(* comparison with NaN is false, as in Go. time.Time values are whole      *)
(* ticks; a nullable column is <<>> (NULL) or <<t>>.                       *)
(***************************************************************************)
EXTENDS Integers, Sequences, FiniteSets, TLC

\* ------------------------------------------------------------------ bounds
\* Update is not issued on a record whose total_audit_count reached MaxAudits.
MaxAudits == 2
\* The same for the runs of audits in a row under one configuration.
MaxAuditsInARow == 4
\* The wall clock and every time argument range over 0..MaxTime.
MaxTime == 1

\* ------------------------------------------------------------- float64
\* A float64 is the integer number of 1/Unit it holds. Unit makes every value
\* of the bounded runs exact: MaxAudits halvings (lambda = 1/2) and a third.
Unit == 3 * (2 ^ MaxAudits)

Zero == 0
One == Unit
Half == Unit \div 2
Third == Unit \div 3

\* x * y
FMul(x, y) == (x * y) \div Unit

\* The quotient x / y, kept as the exact fraction; 0 / 0 is NaN.
FDiv(x, y) == [n |-> x, d |-> y]
IsNaN(q) == q.n = 0 /\ q.d = 0

\* q <= y for a quotient q of weights (its denominator is never negative):
\* false when q is NaN, as every comparison with NaN is.
FLeq(q, y) == ~IsNaN(q) /\ q.n * Unit <= y * q.d

\* ------------------------------------------------------------- values
Times == 0..MaxTime
NULL == <<>>
At(t) == <<t>>
OptTimes == {NULL} \cup {At(t) : t \in Times}

AuditSuccess == "AuditSuccess"
AuditFailure == "AuditFailure"
AuditUnknown == "AuditUnknown"
AuditOffline == "AuditOffline"
AuditOutcomes == {AuditSuccess, AuditFailure, AuditUnknown, AuditOffline}

\* ------------------------------------------------------- configuration
\* The values an UpdateRequest carries, each drawn from a small set.
AuditLambdas == {Half, One}
AuditWeights == {One}
AuditDQs == {Third}
VettingCounts == {2}
SuspensionGracePeriods == {0, 1}
OfflineThresholds == {Half}
OfflineGracePeriods == {0}
OfflineTrackingPeriods == {0, 1}

\* reputation.UpdateRequest values.
UpdateRequests(outcomes, lambdas, gracePeriods, suspensionDQ, auditHistories) ==
    [AuditOutcome : outcomes, AuditLambda : lambdas, AuditWeight : AuditWeights,
     AuditDQ : AuditDQs, AuditsRequiredForVetting : VettingCounts,
     SuspensionGracePeriod : gracePeriods, SuspensionDQEnabled : suspensionDQ,
     AuditHistory : auditHistories]

OfflineDisabled ==
    [OfflineSuspensionEnabled : {FALSE}, OfflineThreshold : OfflineThresholds,
     GracePeriod : OfflineGracePeriods, TrackingPeriod : {0}, OfflineDQEnabled : {FALSE}]
OfflineEnabled ==
    [OfflineSuspensionEnabled : {TRUE}, OfflineThreshold : OfflineThresholds,
     GracePeriod : OfflineGracePeriods, TrackingPeriod : OfflineTrackingPeriods,
     OfflineDQEnabled : BOOLEAN]

\* The calls of Update the model issues come in two families. The scoring
\* family varies the outcome, lambda and the suspension settings, with offline
\* suspension disabled and one answer of the tracker.
ScoringRequests ==
    UpdateRequests(AuditOutcomes, AuditLambdas, SuspensionGracePeriods, {TRUE}, OfflineDisabled)
    \cup UpdateRequests(AuditOutcomes, AuditLambdas, {0}, {FALSE}, OfflineDisabled)
ScoringResponses == {[NewScore |-> Half, TrackingPeriodFull |-> TRUE]}

\* The offline family varies the offline settings and the answer of the
\* tracker, for an online and an offline outcome, with lambda = 1 and
\* suspension disqualification enabled with no grace period.
OfflineRequests ==
    UpdateRequests({AuditSuccess, AuditOffline}, {One}, {0}, {TRUE}, OfflineEnabled)
OfflineResponses ==
    [NewScore : {Zero}, TrackingPeriodFull : BOOLEAN]
    \cup {[NewScore |-> Half, TrackingPeriodFull |-> TRUE]}

\* The four outcomes under one configuration.
PlainRequests == UpdateRequests(AuditOutcomes, {One}, {0}, {TRUE}, OfflineDisabled)

\* ----------------------------------------------------------------- state
VARIABLES
    reputations,   \* the reputations table: node id -> row, for the ids that have a row
    clock,         \* the wall clock (time.Now, time.Since)
    call,          \* the last call: its arguments, the row it found, what it returned
    txs,           \* the transaction of each caller that runs Update step by step
    start          \* the table those transactions started from

vars == <<reputations, clock, call, txs, start>>
txvars == <<txs, start>>

\* The row INSERT INTO reputations (id, audit_history) creates: every other
\* column takes its zero value, the history is the empty one.
ZeroRow ==
    [AuditSuccessCount |-> 0, TotalAuditCount |-> 0, VettedAt |-> NULL,
     Contained |-> FALSE, Disqualified |-> NULL, Suspended |-> NULL,
     UnknownAuditSuspended |-> NULL,
     OfflineSuspended |-> NULL, UnderReview |-> NULL, OnlineScore |-> Zero,
     AuditHistory |-> 0,
     AuditReputationAlpha |-> Zero, AuditReputationBeta |-> Zero,
     UnknownAuditReputationAlpha |-> Zero, UnknownAuditReputationBeta |-> Zero,
     LastContactSuccess |-> NULL, LastContactFailure |-> NULL]

HasRow(id) == id \in DOMAIN reputations

\* tx.Get_Reputation_By_Id: <<row>>, or <<>> for sql.ErrNoRows.
Get_Reputation_By_Id(id) == IF HasRow(id) THEN <<reputations[id]>> ELSE <<>>

\* A write without its WHERE id = ?: every row of the table is replaced.
WithRowOfAll(id, row) ==
    [m \in DOMAIN reputations \cup {id} |-> row]

\* The table with the row of id replaced (or inserted).
WithRow(id, row) ==
    [m \in DOMAIN reputations \cup {id} |-> IF m = id THEN row ELSE reputations[m]]

\* ------------------------------------------------------ update fields
\* int64Field, float64Field, boolField: set and value.
Field(v) == [set |-> TRUE, value |-> v]
Unset(v) == [set |-> FALSE, value |-> v]
\* timeField: set, isNil and value.
TimeUnset == [set |-> FALSE, isNil |-> FALSE, value |-> 0]
TimeSet(t) == [set |-> TRUE, isNil |-> FALSE, value |-> t]
TimeNil == [set |-> TRUE, isNil |-> TRUE, value |-> 0]

\* The update without the count.
updateReputationUncounted(isSuccess, alpha, beta, lambda, w, totalCount) ==
    LET v == IF isSuccess THEN One ELSE 0 - One
    IN  [newAlpha |-> FMul(lambda, alpha) + FMul(w, One + v) \div 2,
         newBeta |-> FMul(lambda, beta) + FMul(w, One - v) \div 2,
         updatedCount |-> totalCount]

\* The update with the sign of the feedback wrong in beta: v - 1 for 1 - v.
updateReputationSigned(isSuccess, alpha, beta, lambda, w, totalCount) ==
    LET v == IF isSuccess THEN One ELSE 0 - One
    IN  [newAlpha |-> FMul(lambda, alpha) + FMul(w, One + v) \div 2,
         newBeta |-> FMul(lambda, beta) + FMul(w, v - One) \div 2,
         updatedCount |-> totalCount + 1]

\* The update that takes every audit for a success.
updateReputationForgiving(isSuccess, alpha, beta, lambda, w, totalCount) ==
    LET v == One
    IN  [newAlpha |-> FMul(lambda, alpha) + FMul(w, One + v) \div 2,
         newBeta |-> FMul(lambda, beta) + FMul(w, One - v) \div 2,
         updatedCount |-> totalCount + 1]

updateReputation(isSuccess, alpha, beta, lambda, w, totalCount) ==
    LET v == IF isSuccess THEN One ELSE 0 - One
    IN  [newAlpha |-> FMul(lambda, alpha) + FMul(w, One + v) \div 2,
         newBeta |-> FMul(lambda, beta) + FMul(w, One - v) \div 2,
         updatedCount |-> totalCount + 1]

\* A pair the switch should leave alone, updated as for a failed audit.
untouchedAsFailure(alpha, beta, totalCount) ==
    [newAlpha |-> alpha, newBeta |-> beta + One, updatedCount |-> totalCount + 1]

\* A pair of weights the switch leaves alone, as updateReputation returns one.
untouched(alpha, beta, totalCount) ==
    [newAlpha |-> alpha, newBeta |-> beta, updatedCount |-> totalCount + 1]

\* auditAlpha, auditBeta, unknownAuditAlpha, unknownAuditBeta and
\* updatedTotalAuditCount after the switch.
weightsAfter(audit, unknown, updatedCount) ==
    [auditAlpha |-> audit.newAlpha, auditBeta |-> audit.newBeta,
     unknownAuditAlpha |-> unknown.newAlpha, unknownAuditBeta |-> unknown.newBeta,
     updatedTotalAuditCount |-> updatedCount]

\* The switch on the audit outcome: the four weights and the new audit count.
updatedWeights(dbNode, updateReq) ==
    LET totalAuditCount == dbNode.TotalAuditCount
        audit(isSuccess) ==
            updateReputation(isSuccess, dbNode.AuditReputationAlpha, dbNode.AuditReputationBeta,
                             updateReq.AuditLambda, updateReq.AuditWeight, totalAuditCount)
        unknown(isSuccess) ==
            updateReputation(isSuccess, dbNode.UnknownAuditReputationAlpha,
                             dbNode.UnknownAuditReputationBeta,
                             updateReq.AuditLambda, updateReq.AuditWeight, totalAuditCount)
        sameAudit == untouched(dbNode.AuditReputationAlpha, dbNode.AuditReputationBeta,
                               totalAuditCount)
        sameUnknown == untouched(dbNode.UnknownAuditReputationAlpha,
                                 dbNode.UnknownAuditReputationBeta, totalAuditCount)
    IN  CASE updateReq.AuditOutcome = AuditSuccess ->
                \* for a successful audit, increase reputation for normal *and* unknown audits
                weightsAfter(audit(TRUE), unknown(TRUE), audit(TRUE).updatedCount)
          [] updateReq.AuditOutcome = AuditFailure ->
                \* for audit failure, only update normal alpha/beta
                weightsAfter(audit(FALSE), sameUnknown, audit(FALSE).updatedCount)
          [] updateReq.AuditOutcome = AuditUnknown ->
                \* for audit unknown, only update unknown alpha/beta
                weightsAfter(sameAudit, unknown(FALSE), unknown(FALSE).updatedCount)
          [] updateReq.AuditOutcome = AuditOffline ->
                \* for audit offline, only update total audit count
                weightsAfter(sameAudit, sameUnknown, totalAuditCount + 1)

\* An update that leaves the containment flag alone.
containedFieldLeftAlone(dbNode, updateReq) == Unset(FALSE)

\* Updating node stats always exits it from containment mode.
containedField(dbNode, updateReq) == Field(FALSE)

\* Vetting that does not look at the vetted_at the row holds.
vettedAtFieldAgain(dbNode, updateReq, updatedTotalAuditCount, now) ==
    IF updatedTotalAuditCount >= updateReq.AuditsRequiredForVetting
    THEN TimeSet(now)
    ELSE TimeUnset

\* Vetting one audit late: > for >=.
vettedAtFieldLate(dbNode, updateReq, updatedTotalAuditCount, now) ==
    IF dbNode.VettedAt = NULL /\ updatedTotalAuditCount > updateReq.AuditsRequiredForVetting
    THEN TimeSet(now)
    ELSE TimeUnset

\* vettedAt == nil && updatedTotalAuditCount >= AuditsRequiredForVetting
vettedAtField(dbNode, updateReq, updatedTotalAuditCount, now) ==
    IF dbNode.VettedAt = NULL /\ updatedTotalAuditCount >= updateReq.AuditsRequiredForVetting
    THEN TimeSet(now)
    ELSE TimeUnset

\* Case a with the threshold excluded: < for <=.
auditDisqualifiesBelow(auditAlpha, auditBeta, updateReq) ==
    LET auditRep == FDiv(auditAlpha, auditAlpha + auditBeta)
    IN  FLeq(auditRep, updateReq.AuditDQ) /\ auditRep.n * Unit # updateReq.AuditDQ * auditRep.d

\* disqualification case a: auditRep <= AuditDQ
auditDisqualifies(auditAlpha, auditBeta, updateReq) ==
    LET auditRep == FDiv(auditAlpha, auditAlpha + auditBeta)
    IN  FLeq(auditRep, updateReq.AuditDQ)

\* The suspension with the threshold excluded: < for <=.
unknownAuditStrictlyBelow(unknownAuditAlpha, unknownAuditBeta, updateReq) ==
    LET unknownAuditRep == FDiv(unknownAuditAlpha, unknownAuditAlpha + unknownAuditBeta)
    IN  FLeq(unknownAuditRep, updateReq.AuditDQ)
        /\ unknownAuditRep.n * Unit # updateReq.AuditDQ * unknownAuditRep.d

\* unknownAuditRep <= AuditDQ
unknownAuditBelow(unknownAuditAlpha, unknownAuditBeta, updateReq) ==
    LET unknownAuditRep == FDiv(unknownAuditAlpha, unknownAuditAlpha + unknownAuditBeta)
    IN  FLeq(unknownAuditRep, updateReq.AuditDQ)

\* time.Since(t)
Since(t) == clock - t

\* disqualification case b, given that unknownAuditRep <= AuditDQ and the
\* value UnknownAuditSuspended has in the update fields so far.
suspensionDisqualifies(dbNode, updateReq, suspendedField) ==
    /\ updateReq.AuditOutcome # AuditSuccess
    /\ dbNode.UnknownAuditSuspended # NULL
    /\ ~suspendedField.set
    /\ Since(dbNode.UnknownAuditSuspended[1]) > updateReq.SuspensionGracePeriod
    /\ updateReq.SuspensionDQEnabled

\* A suspension that starts again with every audit below the threshold.
suspendedFieldAgain(dbNode, now) == TimeSet(now)

\* if dbNode.UnknownAuditSuspended == nil: suspended at now
suspendedField(dbNode, now) ==
    IF dbNode.UnknownAuditSuspended = NULL THEN TimeSet(now) ELSE TimeUnset

\* The unknown-audit block: the fields UnknownAuditSuspended and Disqualified
\* after it, from Disqualified as case a left it.
unknownAuditFields(dbNode, updateReq, below, disqualified, now) ==
    IF below
    THEN LET suspended == suspendedField(dbNode, now)
         IN  IF suspensionDisqualifies(dbNode, updateReq, suspended)
             THEN [Disqualified |-> TimeSet(now), UnknownAuditSuspended |-> TimeNil]
             ELSE [Disqualified |-> disqualified, UnknownAuditSuspended |-> suspended]
    ELSE IF dbNode.UnknownAuditSuspended # NULL
         THEN [Disqualified |-> disqualified, UnknownAuditSuspended |-> TimeNil]
         ELSE [Disqualified |-> disqualified, UnknownAuditSuspended |-> TimeUnset]

\* A penalty that does not wait for a full tracking period.
penalizeOfflineNodeEarly(updateReq, auditHistoryResponse) ==
    auditHistoryResponse.NewScore < updateReq.AuditHistory.OfflineThreshold

penalizeOfflineNode(updateReq, auditHistoryResponse) ==
    /\ auditHistoryResponse.NewScore < updateReq.AuditHistory.OfflineThreshold
    /\ auditHistoryResponse.TrackingPeriodFull

\* A review window that has passed at its end already: >= for >.
trackingPeriodPassedAtEnd(dbNode, updateReq, now) ==
    LET gracePeriodEnd == dbNode.UnderReview[1] + updateReq.AuditHistory.GracePeriod
        trackingPeriodEnd == gracePeriodEnd + updateReq.AuditHistory.TrackingPeriod
    IN  now >= trackingPeriodEnd

\* now.After(trackingPeriodEnd)
trackingPeriodPassed(dbNode, updateReq, now) ==
    LET gracePeriodEnd == dbNode.UnderReview[1] + updateReq.AuditHistory.GracePeriod
        trackingPeriodEnd == gracePeriodEnd + updateReq.AuditHistory.TrackingPeriod
    IN  now > trackingPeriodEnd

\* Offline suspension disabled, with the suspension and the review left as
\* they are.
offlineDisabledFieldsKept(dbNode, disqualified) ==
    [Disqualified |-> disqualified, OfflineSuspended |-> TimeUnset,
     OfflineUnderReview |-> TimeUnset]

\* Offline suspension disabled, with the review ended and the suspension left.
offlineDisabledFieldsReviewOnly(dbNode, disqualified) ==
    [Disqualified |-> disqualified, OfflineSuspended |-> TimeUnset,
     OfflineUnderReview |-> IF dbNode.UnderReview # NULL THEN TimeNil ELSE TimeUnset]

\* if suspension not enabled, skip penalization and unsuspend node if applicable
offlineDisabledFields(dbNode, disqualified) ==
    [Disqualified |-> disqualified,
     OfflineSuspended |-> IF dbNode.OfflineSuspended # NULL THEN TimeNil ELSE TimeUnset,
     OfflineUnderReview |-> IF dbNode.UnderReview # NULL THEN TimeNil ELSE TimeUnset]

\* A suspension that is lifted during the review and never set again.
suspendedInReviewLiftedOnly(dbNode, penalize, now) ==
    IF ~penalize /\ dbNode.OfflineSuspended # NULL THEN TimeNil ELSE TimeUnset

\* move node in and out of suspension as needed during review period
suspendedInReview(dbNode, penalize, now) ==
    IF ~penalize /\ dbNode.OfflineSuspended # NULL THEN TimeNil
    ELSE IF penalize /\ dbNode.OfflineSuspended = NULL THEN TimeSet(now)
    ELSE TimeUnset

\* A release that lifts the suspension and leaves the node under review.
clearedReviewSuspensionOnly(fields) ==
    [fields EXCEPT !.OfflineSuspended = TimeNil]

\* after tracking period has elapsed, if score is good, clear under review
clearedReview(fields) ==
    [fields EXCEPT !.OfflineUnderReview = TimeNil, !.OfflineSuspended = TimeNil]

\* A penalized node that is released when it cannot be disqualified.
offlineDisqualifiedOrReleased(updateReq, fields, now) ==
    IF updateReq.AuditHistory.OfflineDQEnabled
    THEN [fields EXCEPT !.Disqualified = TimeSet(now)]
    ELSE [fields EXCEPT !.OfflineUnderReview = TimeNil, !.OfflineSuspended = TimeNil]

\* A penalized node whose review starts again when it cannot be disqualified.
offlineDisqualifiedOrReviewedAgain(updateReq, fields, now) ==
    IF updateReq.AuditHistory.OfflineDQEnabled
    THEN [fields EXCEPT !.Disqualified = TimeSet(now)]
    ELSE [fields EXCEPT !.OfflineUnderReview = TimeSet(now)]

\* otherwise, disqualify node (if OfflineDQEnabled feature flag is true)
offlineDisqualified(updateReq, fields, now) ==
    IF updateReq.AuditHistory.OfflineDQEnabled
    THEN [fields EXCEPT !.Disqualified = TimeSet(now)]
    ELSE fields

\* The offline block: the fields OfflineSuspended, OfflineUnderReview and
\* Disqualified after it, from Disqualified as the unknown-audit block left it.
offlineFields(dbNode, updateReq, auditHistoryResponse, disqualified, now) ==
    LET penalize == penalizeOfflineNode(updateReq, auditHistoryResponse)
        none == [Disqualified |-> disqualified, OfflineSuspended |-> TimeUnset,
                 OfflineUnderReview |-> TimeUnset]
    IN  IF ~updateReq.AuditHistory.OfflineSuspensionEnabled
        THEN offlineDisabledFields(dbNode, disqualified)
        ELSE IF dbNode.UnderReview # NULL
        THEN LET flap == [none EXCEPT
                             !.OfflineSuspended = suspendedInReview(dbNode, penalize, now)]
             IN  IF trackingPeriodPassed(dbNode, updateReq, now)
                 THEN IF penalize
                      THEN offlineDisqualified(updateReq, flap, now)
                      ELSE clearedReview(flap)
                 ELSE flap
        ELSE IF penalize
        THEN [none EXCEPT !.OfflineUnderReview = TimeSet(now),
                          !.OfflineSuspended = TimeSet(now)]
        ELSE none

\* An online score written only when offline suspension is enabled.
onlineScoreFieldWhenEnabled(updateReq, auditHistoryResponse) ==
    IF updateReq.AuditHistory.OfflineSuspensionEnabled
    THEN Field(auditHistoryResponse.NewScore)
    ELSE Unset(Zero)

\* always update online score
onlineScoreField(updateReq, auditHistoryResponse) ==
    Field(auditHistoryResponse.NewScore)

\* updateNodeStats as populateUpdateNodeStats returns it, from the weights w
\* after the switch and the fields unk, off of the two blocks.
nodeStats(dbNode, updateReq, auditHistoryResponse, now, w, unk, off) ==
    [TotalAuditCount |-> Field(w.updatedTotalAuditCount),
     AuditReputationAlpha |-> Field(w.auditAlpha),
     AuditReputationBeta |-> Field(w.auditBeta),
     UnknownAuditReputationAlpha |-> Field(w.unknownAuditAlpha),
     UnknownAuditReputationBeta |-> Field(w.unknownAuditBeta),
     Contained |-> containedField(dbNode, updateReq),
     OnlineScore |-> onlineScoreField(updateReq, auditHistoryResponse),
     VettedAt |-> vettedAtField(dbNode, updateReq, w.updatedTotalAuditCount, now),
     Disqualified |-> off.Disqualified,
     UnknownAuditSuspended |-> unk.UnknownAuditSuspended,
     LastContactSuccess |-> IF updateReq.AuditOutcome # AuditOffline
                            THEN TimeSet(now) ELSE TimeUnset,
     LastContactFailure |-> IF updateReq.AuditOutcome # AuditOffline
                            THEN TimeUnset ELSE TimeSet(now),
     AuditSuccessCount |-> IF updateReq.AuditOutcome = AuditSuccess
                           THEN Field(dbNode.AuditSuccessCount + 1) ELSE Unset(0),
     OfflineUnderReview |-> off.OfflineUnderReview,
     OfflineSuspended |-> off.OfflineSuspended]

\* The blocks in the order of the code: each starts from the Disqualified
\* field the one before it left.
afterUnknownAudit(dbNode, updateReq, auditHistoryResponse, now, w, unk) ==
    nodeStats(dbNode, updateReq, auditHistoryResponse, now, w, unk,
              offlineFields(dbNode, updateReq, auditHistoryResponse, unk.Disqualified, now))

afterSwitch(dbNode, updateReq, auditHistoryResponse, now, w) ==
    afterUnknownAudit(dbNode, updateReq, auditHistoryResponse, now, w,
        unknownAuditFields(dbNode, updateReq,
            unknownAuditBelow(w.unknownAuditAlpha, w.unknownAuditBeta, updateReq),
            IF auditDisqualifies(w.auditAlpha, w.auditBeta, updateReq)
            THEN TimeSet(now) ELSE TimeUnset,
            now))

populateUpdateNodeStats(dbNode, updateReq, auditHistoryResponse, now) ==
    afterSwitch(dbNode, updateReq, auditHistoryResponse, now,
                updatedWeights(dbNode, updateReq))

\* dbx.Reputation_Update_Fields: per column <<>> (left alone) or <<v>> (set to
\* v, v being NULL or <<t>> for a nullable column).
NoFields ==
    [VettedAt |-> <<>>, TotalAuditCount |-> <<>>, AuditReputationAlpha |-> <<>>,
     AuditReputationBeta |-> <<>>, Disqualified |-> <<>>,
     UnknownAuditReputationAlpha |-> <<>>, UnknownAuditReputationBeta |-> <<>>,
     UnknownAuditSuspended |-> <<>>, AuditSuccessCount |-> <<>>, Contained |-> <<>>,
     OnlineScore |-> <<>>, OfflineSuspended |-> <<>>, UnderReview |-> <<>>]

\* A field of updateNodeStats as a column update.
Column(f) == IF f.set THEN <<f.value>> ELSE <<>>
\* The same for a timeField whose isNil the caller honours.
NullableColumn(f) == IF ~f.set THEN <<>> ELSE IF f.isNil THEN <<NULL>> ELSE <<At(f.value)>>
\* The same for a timeField the caller reads value of only.
TimeColumn(f) == IF f.set THEN <<At(f.value)>> ELSE <<>>

\* A success count that goes up with every audit.
auditSuccessCountColumnAlways(dbNode, updateReq, update) ==
    <<dbNode.AuditSuccessCount + 1>>

\* update.AuditSuccessCount, then dbNode.AuditSuccessCount + 1 for a success.
auditSuccessCountColumn(dbNode, updateReq, update) ==
    IF updateReq.AuditOutcome = AuditSuccess
    THEN <<dbNode.AuditSuccessCount + 1>>
    ELSE Column(update.AuditSuccessCount)

\* The column updates populateUpdateFields builds from update.
updateFieldsOf(dbNode, updateReq, update) ==
    [VettedAt |-> TimeColumn(update.VettedAt),
     TotalAuditCount |-> Column(update.TotalAuditCount),
     AuditReputationAlpha |-> Column(update.AuditReputationAlpha),
     AuditReputationBeta |-> Column(update.AuditReputationBeta),
     Disqualified |-> TimeColumn(update.Disqualified),
     UnknownAuditReputationAlpha |-> Column(update.UnknownAuditReputationAlpha),
     UnknownAuditReputationBeta |-> Column(update.UnknownAuditReputationBeta),
     UnknownAuditSuspended |-> NullableColumn(update.UnknownAuditSuspended),
     AuditSuccessCount |-> auditSuccessCountColumn(dbNode, updateReq, update),
     Contained |-> Column(update.Contained),
     OnlineScore |-> Column(update.OnlineScore),
     OfflineSuspended |-> NullableColumn(update.OfflineSuspended),
     UnderReview |-> NullableColumn(update.OfflineUnderReview)]

populateUpdateFields(dbNode, updateReq, auditHistoryResponse, now) ==
    updateFieldsOf(dbNode, updateReq,
                   populateUpdateNodeStats(dbNode, updateReq, auditHistoryResponse, now))

\* UPDATE reputations SET ... WHERE id = ? RETURNING *: the row with the set
\* columns replaced.
UpdatedRow(row, updateFields) ==
    [c \in DOMAIN row |->
        IF c \in DOMAIN updateFields /\ updateFields[c] # <<>>
        THEN updateFields[c][1] ELSE row[c]]

\* overlay.ReputationStatus of a row (getNodeStatus, oldStatus, newStatus).
getNodeStatus(dbNode) ==
    [Contained |-> dbNode.Contained, VettedAt |-> dbNode.VettedAt,
     Disqualified |-> dbNode.Disqualified,
     UnknownAuditSuspended |-> dbNode.UnknownAuditSuspended,
     OfflineSuspended |-> dbNode.OfflineSuspended]

\* var oldStatus overlay.ReputationStatus
ZeroStatus ==
    [Contained |-> FALSE, VettedAt |-> NULL, Disqualified |-> NULL,
     UnknownAuditSuspended |-> NULL, OfflineSuspended |-> NULL]

ReputationStatuses ==
    [Contained : BOOLEAN, VettedAt : OptTimes, Disqualified : OptTimes,
     UnknownAuditSuspended : OptTimes, OfflineSuspended : OptTimes]

\* updateAuditHistoryWithTx: the tracker adds the observation to the history of
\* the row and the new history is written back in the transaction.
updateAuditHistory(row) == [row EXCEPT !.AuditHistory = @ + 1]

\* ------------------------------------------------------------ the calls
NoRequest ==
    [AuditOutcome |-> "", AuditLambda |-> One, AuditWeight |-> One, AuditDQ |-> Zero,
     AuditsRequiredForVetting |-> 0, SuspensionGracePeriod |-> 0,
     SuspensionDQEnabled |-> FALSE,
     AuditHistory |-> [OfflineSuspensionEnabled |-> FALSE, OfflineThreshold |-> Zero,
                       GracePeriod |-> 0, TrackingPeriod |-> 0, OfflineDQEnabled |-> FALSE]]
NoResponse == [NewScore |-> Zero, TrackingPeriodFull |-> FALSE]

\* A call that has returned: op and id, the arguments (updateReq, response of
\* the tracker, now, status, at: those the op does not take at their zero
\* value), the row the call found (<<>> or <<row>>), and what it returned: the
\* status (<<>> for nil), changed, whether err # nil, the Info of Get (<<>>
\* for nil), whether the error is ErrNodeNotFound, and whether the call is one
\* whose transaction or statement failed.
Returned(op, id, found) ==
    [op |-> op, id |-> id, updateReq |-> NoRequest, auditHistoryResponse |-> NoResponse,
     now |-> 0, status |-> ZeroStatus, found |-> found,
     retStatus |-> <<>>, changed |-> FALSE, err |-> FALSE,
     info |-> <<>>, notFound |-> FALSE, failed |-> FALSE]

NoCall == Returned("", "", <<>>)
Idle == call = NoCall

\* The callers that run Update concurrently.
Procs == {"a1", "a2"}

\* The transaction of a caller: where it is in Update (pc), the arguments, the
\* row Get_Reputation_By_Id found (found) and the one dbNode points to, oldStatus,
\* the row as the transaction has written it (work, <<>> before any write), the
\* row the table held when it committed (base), what Update returned, how many
\* times the transaction was begun, whether it committed and where it failed.
NoTx ==
    [pc |-> "idle", id |-> "", updateReq |-> NoRequest,
     auditHistoryResponse |-> NoResponse, now |-> 0,
     found |-> <<>>, dbNode |-> <<>>, oldStatus |-> ZeroStatus, work |-> <<>>,
     base |-> <<>>, retStatus |-> <<>>, changed |-> FALSE, err |-> FALSE,
     begun |-> 0, committed |-> FALSE, at |-> ""]
NoTxs == [p \in Procs |-> NoTx]

Init ==
    /\ reputations = << >>
    /\ clock = 0
    /\ call = NoCall
    /\ txs = NoTxs
    /\ start = << >>

\* The wall clock advances.
Tick ==
    /\ Idle
    /\ clock < MaxTime
    /\ clock' = clock + 1
    /\ UNCHANGED <<reputations, call, txvars>>

\* The caller has taken the result of the last call.
Return ==
    /\ ~Idle
    /\ call' = NoCall
    /\ UNCHANGED <<reputations, clock, txvars>>

\* A call whose transaction (or statement) fails: nothing is written.
Failed(op, id) ==
    /\ Idle
    /\ call' = [Returned(op, id, Get_Reputation_By_Id(id)) EXCEPT !.err = TRUE, !.failed = TRUE]
    /\ UNCHANGED <<reputations, clock, txvars>>

\* A guard that lets the update of a disqualified node through.
neverSkipsUpdate(dbNode) == FALSE

\* do not update reputation if node is disqualified
skipsUpdate(dbNode) == dbNode.Disqualified # NULL

\* The row of dbNode after updateAuditHistoryWithTx and Update_Reputation_By_Id.
updatedNode(dbNode, updateReq, auditHistoryResponse, now) ==
    UpdatedRow(updateAuditHistory(dbNode),
               populateUpdateFields(dbNode, updateReq, auditHistoryResponse, now))

\* The transaction of reputations.Update when no statement of it fails, for a
\* node with fewer than maxAudits audits.
UpdateWithin(maxAudits, id, updateReq, auditHistoryResponse, now) ==
    LET found == Get_Reputation_By_Id(id)
        dbNode == IF found = <<>> THEN ZeroRow ELSE found[1]
        c == [Returned("Update", id, found) EXCEPT
                 !.updateReq = updateReq, !.auditHistoryResponse = auditHistoryResponse,
                 !.now = now]
    IN  /\ Idle
        /\ dbNode.Disqualified = NULL => dbNode.TotalAuditCount < maxAudits
        /\ IF skipsUpdate(dbNode)
           THEN \* the early return: oldStatus is still the zero value when
                \* changed is computed
                /\ reputations' = WithRow(id, dbNode)
                /\ call' = [c EXCEPT !.retStatus = <<getNodeStatus(dbNode)>>,
                                     !.changed = (ZeroStatus # getNodeStatus(dbNode))]
           ELSE \E updated \in {updatedNode(dbNode, updateReq, auditHistoryResponse, now)} :
                /\ reputations' = WithRow(id, updated)
                /\ call' = [c EXCEPT !.retStatus = <<getNodeStatus(updated)>>,
                                     !.changed = (getNodeStatus(dbNode) # getNodeStatus(updated))]
        /\ UNCHANGED <<clock, txvars>>

Update(id, updateReq, auditHistoryResponse, now) ==
    UpdateWithin(MaxAudits, id, updateReq, auditHistoryResponse, now)

\* A SetNodeStatus that leaves alone the columns whose value in status is nil.
SetNodeStatusNotNil(id, status) ==
    LET found == Get_Reputation_By_Id(id)
        Opt(t) == IF t = NULL THEN <<>> ELSE <<t>>
        updateFields == [NoFields EXCEPT
                            !.Contained = <<status.Contained>>,
                            !.Disqualified = Opt(status.Disqualified),
                            !.UnknownAuditSuspended = Opt(status.UnknownAuditSuspended),
                            !.OfflineSuspended = Opt(status.OfflineSuspended),
                            !.VettedAt = Opt(status.VettedAt)]
    IN  /\ Idle
        /\ reputations' = IF found = <<>> THEN reputations
                          ELSE WithRow(id, UpdatedRow(found[1], updateFields))
        /\ call' = [Returned("SetNodeStatus", id, found) EXCEPT !.status = status]
        /\ UNCHANGED <<clock, txvars>>

\* Update_Reputation_By_Id outside a transaction: no row, no update, no error.
SetNodeStatus(id, status) ==
    LET found == Get_Reputation_By_Id(id)
        updateFields == [NoFields EXCEPT
                            !.Contained = <<status.Contained>>,
                            !.Disqualified = <<status.Disqualified>>,
                            !.UnknownAuditSuspended = <<status.UnknownAuditSuspended>>,
                            !.OfflineSuspended = <<status.OfflineSuspended>>,
                            !.VettedAt = <<status.VettedAt>>]
    IN  /\ Idle
        /\ reputations' = IF found = <<>> THEN reputations
                          ELSE WithRow(id, UpdatedRow(found[1], updateFields))
        /\ call' = [Returned("SetNodeStatus", id, found) EXCEPT !.status = status]
        /\ UNCHANGED <<clock, txvars>>

\* reputation.Info of a row; the history is the decoded audit_history.
Info(res) ==
    [AuditSuccessCount |-> res.AuditSuccessCount, TotalAuditCount |-> res.TotalAuditCount,
     VettedAt |-> res.VettedAt, Contained |-> res.Contained,
     Disqualified |-> res.Disqualified, Suspended |-> res.Suspended,
     UnknownAuditSuspended |-> res.UnknownAuditSuspended,
     OfflineSuspended |-> res.OfflineSuspended, UnderReview |-> res.UnderReview,
     OnlineScore |-> res.OnlineScore, AuditHistory |-> res.AuditHistory,
     AuditReputationAlpha |-> res.AuditReputationAlpha,
     AuditReputationBeta |-> res.AuditReputationBeta,
     UnknownAuditReputationAlpha |-> res.UnknownAuditReputationAlpha,
     UnknownAuditReputationBeta |-> res.UnknownAuditReputationBeta]

\* A Get that inserts the row it does not find, as the transactions do.
GetOrCreate(id) ==
    LET found == Get_Reputation_By_Id(id)
    IN  /\ Idle
        /\ reputations' = IF found = <<>> THEN WithRow(id, ZeroRow) ELSE reputations
        /\ call' = [Returned("Get", id, found) EXCEPT
                        !.info = <<Info(IF found = <<>> THEN ZeroRow ELSE found[1])>>]
        /\ UNCHANGED <<clock, txvars>>

\* ErrNodeNotFound for sql.ErrNoRows, the Info of the row otherwise.
Get(id) ==
    LET found == Get_Reputation_By_Id(id)
    IN  /\ Idle
        /\ call' = IF found = <<>>
                   THEN [Returned("Get", id, found) EXCEPT !.err = TRUE, !.notFound = TRUE]
                   ELSE [Returned("Get", id, found) EXCEPT !.info = <<Info(found[1])>>]
        /\ UNCHANGED <<reputations, clock, txvars>>

\* Get, INSERT if there is no row, then one column update, in a transaction.
UpdateColumn(op, id, updateFields, at) ==
    LET found == Get_Reputation_By_Id(id)
        dbNode == IF found = <<>> THEN ZeroRow ELSE found[1]
    IN  /\ Idle
        /\ reputations' = WithRow(id, UpdatedRow(dbNode, updateFields))
        /\ call' = [Returned(op, id, found) EXCEPT !.now = at]
        /\ UNCHANGED <<clock, txvars>>

\* A disqualification that does not insert the row it does not find.
DisqualifyNodeFound(id) ==
    LET found == Get_Reputation_By_Id(id)
    IN  /\ Idle
        /\ reputations' = IF found = <<>> THEN reputations
                          ELSE WithRow(id, [found[1] EXCEPT !.Disqualified = At(clock)])
        /\ call' = [Returned("DisqualifyNode", id, found) EXCEPT !.now = clock]
        /\ UNCHANGED <<clock, txvars>>

DisqualifyNode(id) ==
    UpdateColumn("DisqualifyNode", id, [NoFields EXCEPT !.Disqualified = <<At(clock)>>], clock)

\* A suspension stamped with the wall clock, not with suspendedAt.
SuspendNodeNow(id, suspendedAt) ==
    UpdateColumn("SuspendNodeUnknownAudit", id,
                 [NoFields EXCEPT !.UnknownAuditSuspended = <<At(clock)>>], suspendedAt)

SuspendNodeUnknownAudit(id, suspendedAt) ==
    UpdateColumn("SuspendNodeUnknownAudit", id,
                 [NoFields EXCEPT !.UnknownAuditSuspended = <<At(suspendedAt)>>], suspendedAt)

\* The unsuspension with the wrong column set to NULL.
UnsuspendNodeWrongColumn(id) ==
    UpdateColumn("UnsuspendNodeUnknownAudit", id,
                 [NoFields EXCEPT !.Disqualified = <<NULL>>], 0)

UnsuspendNodeUnknownAudit(id) ==
    UpdateColumn("UnsuspendNodeUnknownAudit", id,
                 [NoFields EXCEPT !.UnknownAuditSuspended = <<NULL>>], 0)

\* An Init that replaces the row the id has.
InitNodeAgain(id) ==
    /\ Idle
    /\ reputations' = WithRow(id, ZeroRow)
    /\ call' = Returned("Init", id, Get_Reputation_By_Id(id))
    /\ UNCHANGED <<clock, txvars>>

\* Create_Reputation: a constraint error when the id has a row.
InitNode(id) ==
    LET found == Get_Reputation_By_Id(id)
    IN  /\ Idle
        /\ reputations' = IF found = <<>> THEN WithRow(id, ZeroRow) ELSE reputations
        /\ call' = [Returned("Init", id, found) EXCEPT !.err = (found # <<>>)]
        /\ UNCHANGED <<clock, txvars>>

\* The operations that run in a transaction or a statement that can fail.
Ops == {"Update", "SetNodeStatus", "Get", "DisqualifyNode", "SuspendNodeUnknownAudit",
        "UnsuspendNodeUnknownAudit", "Init"}

\* The ids the calls are for.
Targets == {"n1"}

\* The statuses SetNodeStatus is called with: contained or not, disqualified
\* now or not, and the three other timestamps all NULL or all now.
StatusArgs ==
    {s \in ReputationStatuses :
        /\ s.Disqualified \in {NULL, At(clock)}
        /\ s.VettedAt \in {NULL, At(clock)}
        /\ s.UnknownAuditSuspended = s.VettedAt
        /\ s.OfflineSuspended = s.VettedAt}

\* Three of them: everything cleared; contained and disqualified; contained,
\* vetted and suspended both ways.
CorrectionArgs ==
    {s \in StatusArgs :
        \/ s = ZeroStatus
        \/ s.Contained /\ (s.Disqualified = NULL) # (s.VettedAt = NULL)}

\* The node of id is disqualified. Update reads nothing of its arguments but
\* the id before it returns for such a node.
IsDisqualified(id) == HasRow(id) /\ skipsUpdate(reputations[id])

\* Audits under every configuration of the two families, with status
\* corrections. A disqualified node is audited under the scoring family only.
Next ==
    \/ Tick
    \/ Return
    \/ \E id \in Targets, updateReq \in ScoringRequests,
          auditHistoryResponse \in ScoringResponses, now \in Times :
            Update(id, updateReq, auditHistoryResponse, now)
    \/ \E id \in Targets :
          /\ ~IsDisqualified(id)
          /\ \E updateReq \in OfflineRequests,
                auditHistoryResponse \in OfflineResponses, now \in Times :
                  Update(id, updateReq, auditHistoryResponse, now)
    \/ \E id \in Targets, status \in CorrectionArgs : SetNodeStatus(id, status)
    \/ \E id \in Targets : Get(id)
    \/ \E id \in Targets : InitNode(id)
    \/ \E id \in Targets, op \in Ops : Failed(op, id)

Spec == Init /\ [][Next]_vars

\* Every direct transition, with audits under one configuration.
NextDirect ==
    \/ Tick
    \/ Return
    \/ \E id \in Targets, updateReq \in PlainRequests,
          auditHistoryResponse \in ScoringResponses, now \in Times :
            Update(id, updateReq, auditHistoryResponse, now)
    \/ \E id \in Targets, status \in StatusArgs : SetNodeStatus(id, status)
    \/ \E id \in Targets : Get(id)
    \/ \E id \in Targets : DisqualifyNode(id)
    \/ \E id \in Targets, suspendedAt \in Times : SuspendNodeUnknownAudit(id, suspendedAt)
    \/ \E id \in Targets : UnsuspendNodeUnknownAudit(id)
    \/ \E id \in Targets : InitNode(id)
    \/ \E id \in Targets, op \in Ops : Failed(op, id)

SpecDirect == Init /\ [][NextDirect]_vars

\* Two nodes: every operation for either of them, at one time, with audits
\* of two outcomes under one configuration and one status to set.
Nodes == {"n1", "n2"}
NodeRequests == UpdateRequests({AuditSuccess, AuditUnknown}, {One}, {0}, {TRUE}, OfflineDisabled)

NextNodes ==
    \/ Return
    \/ \E id \in Nodes, updateReq \in NodeRequests,
          auditHistoryResponse \in ScoringResponses :
            Update(id, updateReq, auditHistoryResponse, clock)
    \/ \E id \in Nodes : SetNodeStatus(id, [ZeroStatus EXCEPT !.Contained = TRUE])
    \/ \E id \in Nodes : Get(id)
    \/ \E id \in Nodes : DisqualifyNode(id)
    \/ \E id \in Nodes : SuspendNodeUnknownAudit(id, clock)
    \/ \E id \in Nodes : UnsuspendNodeUnknownAudit(id)
    \/ \E id \in Nodes : InitNode(id)
    \/ \E id \in Nodes : Failed("Update", id)

SpecNodes == Init /\ [][NextNodes]_vars

\* Audits in a row at one time under one configuration, up to MaxAuditsInARow.
NextInARow ==
    \/ Return
    \/ \E id \in Targets, updateReq \in PlainRequests,
          auditHistoryResponse \in ScoringResponses :
            UpdateWithin(MaxAuditsInARow, id, updateReq, auditHistoryResponse, clock)

SpecInARow == Init /\ [][NextInARow]_vars

\* The offline review: audits of every outcome with offline suspension enabled
\* or disabled and every answer of the tracker, and a status correction that
\* suspends a node for being offline without a review.
ReviewRequests ==
    UpdateRequests(AuditOutcomes, {One}, {0}, {TRUE}, OfflineEnabled \cup OfflineDisabled)

NextReview ==
    \/ Tick
    \/ Return
    \/ \E id \in {t \in Targets : ~IsDisqualified(t)}, updateReq \in ReviewRequests,
          auditHistoryResponse \in OfflineResponses, now \in Times :
            Update(id, updateReq, auditHistoryResponse, now)
    \/ \E id \in Targets :
          SetNodeStatus(id, [ZeroStatus EXCEPT !.OfflineSuspended = At(clock)])

SpecReview == Init /\ [][NextReview]_vars

\* Audits alone, from no record: every outcome, offline suspension enabled or
\* disabled per call and every answer of the tracker, each audit stamped with
\* the wall clock, up to MaxAuditsInARow of them.
NextAudits ==
    \/ Tick
    \/ Return
    \/ \E id \in Targets, updateReq \in ReviewRequests,
          auditHistoryResponse \in OfflineResponses :
            UpdateWithin(MaxAuditsInARow, id, updateReq, auditHistoryResponse, clock)

SpecAudits == Init /\ [][NextAudits]_vars

\* ------------------------------------------------ Update, step by step
\* The transaction of reputations.Update one statement at a time, for callers
\* that run concurrently. A transaction writes to its own copy of the row
\* (work); the table changes when it commits.

\* The row after an Update applied on its own to the row found (<<>>: none).
AfterUpdate(found, updateReq, auditHistoryResponse, now) ==
    IF skipsUpdate(IF found = <<>> THEN ZeroRow ELSE found[1])
    THEN IF found = <<>> THEN ZeroRow ELSE found[1]
    ELSE updatedNode(IF found = <<>> THEN ZeroRow ELSE found[1],
                     updateReq, auditHistoryResponse, now)

\* The tables the transactions start from: empty, or one row for the target:
\* the zero-value row or the row a first Update leaves.
InitialRows ==
    {ZeroRow} \cup {AfterUpdate(<<>>, updateReq, auditHistoryResponse, 0) :
                        updateReq \in PlainRequests, auditHistoryResponse \in ScoringResponses}
InitialTables == {<< >>} \cup {[id \in Targets |-> row] : row \in InitialRows}

InitTx ==
    /\ reputations \in InitialTables
    /\ start = reputations
    /\ clock = 0
    /\ call = NoCall
    /\ txs = NoTxs

\* The transaction of p with some fields changed.
SetTx(p, t) == txs' = [txs EXCEPT ![p] = t]

\* The isolation level a transaction runs at unless it sets one.
DefaultIsolationLevel == "READ COMMITTED"

\* SET TRANSACTION ISOLATION LEVEL SERIALIZABLE
IsolationLevel == "SERIALIZABLE"

\* WithTx begins the transaction and Update sets its isolation level.
BeginTx(p, id, updateReq, auditHistoryResponse, now) ==
    /\ txs[p].pc = "idle"
    /\ SetTx(p, [NoTx EXCEPT !.pc = "get", !.id = id, !.updateReq = updateReq,
                             !.auditHistoryResponse = auditHistoryResponse,
                             !.now = now, !.begun = txs[p].begun + 1])
    /\ UNCHANGED <<reputations, clock, call, start>>

\* dbNode, err = tx.Get_Reputation_By_Id
GetReputation(p) ==
    LET found == Get_Reputation_By_Id(txs[p].id)
    IN  /\ txs[p].pc = "get"
        /\ SetTx(p, [txs[p] EXCEPT !.pc = IF found = <<>> THEN "insert" ELSE "check",
                                   !.found = found, !.dbNode = found])
        /\ UNCHANGED <<reputations, clock, call, start>>

\* sql.ErrNoRows: INSERT INTO reputations, then Get_Reputation_By_Id again,
\* which reads the row the transaction inserted.
InsertReputation(p) ==
    /\ txs[p].pc = "insert"
    /\ SetTx(p, [txs[p] EXCEPT !.pc = "check", !.work = <<ZeroRow>>, !.dbNode = <<ZeroRow>>])
    /\ UNCHANGED <<reputations, clock, call, start>>

\* The disqualified check and oldStatus.
CheckDisqualified(p) ==
    /\ txs[p].pc = "check"
    /\ IF skipsUpdate(txs[p].dbNode[1])
       THEN SetTx(p, [txs[p] EXCEPT !.pc = "commit"])
       ELSE SetTx(p, [txs[p] EXCEPT !.pc = "history",
                                    !.oldStatus = getNodeStatus(txs[p].dbNode[1])])
    /\ UNCHANGED <<reputations, clock, call, start>>

\* The history written with a statement of its own, outside the transaction.
UpdateAuditHistoryWithDB(p) ==
    /\ txs[p].pc = "history"
    /\ SetTx(p, [txs[p] EXCEPT !.pc = "update",
                               !.work = <<updateAuditHistory(txs[p].dbNode[1])>>])
    /\ reputations' = WithRow(txs[p].id, updateAuditHistory(txs[p].dbNode[1]))
    /\ UNCHANGED <<clock, call, start>>

\* reputations.updateAuditHistoryWithTx(ctx, tx, ...)
UpdateAuditHistoryWithTx(p) ==
    /\ txs[p].pc = "history"
    /\ SetTx(p, [txs[p] EXCEPT !.pc = "update",
                               !.work = <<updateAuditHistory(txs[p].dbNode[1])>>])
    /\ UNCHANGED <<reputations, clock, call, start>>

\* populateUpdateFields and dbNode, err = tx.Update_Reputation_By_Id
UpdateReputation(p) ==
    /\ txs[p].pc = "update"
    /\ \E updated \in {UpdatedRow(txs[p].work[1],
                                  populateUpdateFields(txs[p].dbNode[1], txs[p].updateReq,
                                                       txs[p].auditHistoryResponse,
                                                       txs[p].now))} :
          SetTx(p, [txs[p] EXCEPT !.pc = "commit", !.work = <<updated>>,
                                  !.dbNode = <<updated>>])
    /\ UNCHANGED <<reputations, clock, call, start>>

\* A serializable transaction that wrote commits only if the row it read is
\* still the row of the table; at a lower level it commits whatever it read.
CanCommit(p) ==
    (IsolationLevel = "SERIALIZABLE" /\ txs[p].work # <<>>)
        => Get_Reputation_By_Id(txs[p].id) = txs[p].found

\* What Update returns when the transaction returned an error, with the
\* status and changed computed all the same.
returnedAnyway(t) ==
    [t EXCEPT !.pc = "returned", !.err = TRUE, !.at = t.pc,
              !.retStatus = IF t.dbNode = <<>> THEN <<>> ELSE <<getNodeStatus(t.dbNode[1])>>,
              !.changed = (t.dbNode # <<>> /\ t.oldStatus # getNodeStatus(t.dbNode[1]))]

\* return nil, false, Error.Wrap(err)
returnedError(t) ==
    [t EXCEPT !.pc = "returned", !.err = TRUE, !.at = t.pc]

\* return getNodeStatus(dbNode), !oldStatus.Equal(newStatus), nil
returnedStatus(t, base) ==
    [t EXCEPT !.pc = "returned", !.committed = TRUE, !.base = base,
              !.retStatus = <<getNodeStatus(t.dbNode[1])>>,
              !.changed = (t.oldStatus # getNodeStatus(t.dbNode[1]))]

\* The transaction commits: its writes reach the table at once.
CommitTx(p) ==
    /\ txs[p].pc = "commit"
    /\ CanCommit(p)
    /\ reputations' = IF txs[p].work = <<>> THEN reputations
                      ELSE WithRow(txs[p].id, txs[p].work[1])
    /\ SetTx(p, returnedStatus(txs[p], Get_Reputation_By_Id(txs[p].id)))
    /\ UNCHANGED <<clock, call, start>>

\* A statement or the commit fails (an error of the connection, a timeout, a
\* conflict with another transaction): the transaction is rolled back.
FailTx(p) ==
    /\ txs[p].pc \in {"get", "insert", "check", "history", "update", "commit"}
    /\ SetTx(p, returnedError(txs[p]))
    /\ UNCHANGED <<reputations, clock, call, start>>

\* Time passes before the callers start; the transactions of a race are short
\* next to a step of the clock.
TickBefore ==
    /\ \A p \in Procs : txs[p].pc = "idle"
    /\ Tick

NextTx ==
    \/ TickBefore
    \/ \E p \in Procs, id \in Targets, updateReq \in PlainRequests,
          auditHistoryResponse \in ScoringResponses, now \in Times :
            BeginTx(p, id, updateReq, auditHistoryResponse, now)
    \/ \E p \in Procs : GetReputation(p)
    \/ \E p \in Procs : InsertReputation(p)
    \/ \E p \in Procs : CheckDisqualified(p)
    \/ \E p \in Procs : UpdateAuditHistoryWithTx(p)
    \/ \E p \in Procs : UpdateReputation(p)
    \/ \E p \in Procs : CommitTx(p)
    \/ \E p \in Procs : FailTx(p)

SpecTx == InitTx /\ [][NextTx]_vars

\* ------------------------------------------------ failed audits only
\* A node with k successes falls to AuditDQ = 1/3 after at most 2k failures
\* (lambda = 1), so runs of MaxAuditsInARow audits cover the nodes that had
\* MaxAuditsInARow \div 3 audits before the failures.
PriorAudits == MaxAuditsInARow \div 3
PriorRequests ==
    UpdateRequests(AuditOutcomes, AuditLambdas, {0}, {TRUE}, OfflineDisabled)
FailureRequests ==
    UpdateRequests({AuditFailure}, AuditLambdas, SuspensionGracePeriods, {TRUE}, OfflineDisabled)

\* The rows (<<>>: none) k audits at time 0 can leave.
RECURSIVE RowsAfter(_)
RowsAfter(k) ==
    IF k = 0 THEN {<<>>}
    ELSE RowsAfter(k - 1) \cup
         {<<AfterUpdate(found, updateReq, auditHistoryResponse, 0)>> :
             found \in RowsAfter(k - 1), updateReq \in PriorRequests,
             auditHistoryResponse \in ScoringResponses}

\* The node has no record, or the record of a node that is not disqualified.
InitFailing ==
    /\ clock = 0
    /\ \E found \in {f \in RowsAfter(PriorAudits) : f = <<>> \/ ~skipsUpdate(f[1])} :
          reputations = IF found = <<>> THEN << >> ELSE [id \in Targets |-> found[1]]
    /\ call = NoCall
    /\ txs = NoTxs
    /\ start = << >>

\* An audit that failed, under any of the configurations.
FailedAudit ==
    \E id \in Targets, updateReq \in FailureRequests,
       auditHistoryResponse \in ScoringResponses, now \in Times :
         UpdateWithin(MaxAuditsInARow, id, updateReq, auditHistoryResponse, now)

NextFailing ==
    \/ Tick
    \/ Return
    \/ FailedAudit

\* ENABLED <<FailedAudit>>_vars, from the guard of UpdateWithin: no call is
\* in progress and the node is disqualified or has audits left.
CanAudit ==
    /\ Idle
    /\ \E id \in Targets :
          (HasRow(id) /\ ~skipsUpdate(reputations[id]))
              => reputations[id].TotalAuditCount < MaxAuditsInARow

\* The audits keep coming and their callers keep taking the result: weak
\* fairness of Return and of FailedAudit, the latter with its ENABLED
\* written out as CanAudit.
SpecFailing ==
    /\ InitFailing /\ [][NextFailing]_vars
    /\ WF_vars(Return)
    /\ ([]<>(~CanAudit) \/ []<><<FailedAudit>>_vars)

\* ================================================================ claims
\* The claims are stated of the state a call has just returned in: call holds
\* its arguments and the row it found, reputations the row it left.

\* The row the call worked on: the one it found or, for want of one, the one
\* it inserted.
Pre == IF call.found = <<>> THEN ZeroRow ELSE call.found[1]
\* The row of the node after the call.
Post == reputations[call.id]
\* An Update has returned without an error.
UpdateReturned == call.op = "Update" /\ ~call.err
\* An Update has returned without an error for a node that was not disqualified.
UpdateApplied == UpdateReturned /\ Pre.Disqualified = NULL
\* alpha / (alpha + beta) <= the AuditDQ of the call.
ScoreBelowDQ(alpha, beta) == FLeq(FDiv(alpha, alpha + beta), call.updateReq.AuditDQ)

\* C1: an Update for a node whose row has disqualified set leaves every column
\* of the row as it was and returns the status of that row.
C1_DisqualifiedUpdateIsNoOp ==
    (UpdateReturned /\ call.found # <<>> /\ Pre.Disqualified # NULL)
        => /\ HasRow(call.id)
           /\ Post = call.found[1]
           /\ call.retStatus = <<getNodeStatus(call.found[1])>>

C1_Witness ==
    /\ UpdateReturned /\ call.found # <<>>
    /\ call.found[1].Disqualified # NULL /\ call.found[1].Contained
    /\ call.updateReq.AuditOutcome = AuditSuccess
    /\ Post = call.found[1]

\* C2 (as claimed): the changed flag of an Update that returned without an error
\* is true exactly when the status of the row after the call differs from the
\* status of the row before it, on a disqualified row as well.
C2_ChangedIffStatusDiffers ==
    UpdateReturned => (call.changed <=> getNodeStatus(Pre) # getNodeStatus(Post))

\* C3 (as claimed): after any Update that returned without an error the row is
\* not contained.
C3_Original_NeverContained ==
    UpdateReturned => ~Post.Contained

\* C3 (amended): after an Update that returned without an error for a node that
\* was not disqualified the row is not contained; the row of a disqualified
\* node keeps the flag it had.
C3_NotContainedUnlessDisqualified ==
    /\ UpdateApplied => ~Post.Contained
    /\ (UpdateReturned /\ Pre.Disqualified # NULL) => Post.Contained = Pre.Contained

C3_Witness ==
    UpdateApplied /\ Pre.Contained /\ ~Post.Contained

\* C4 (as claimed): every Update that returned without an error raised
\* total_audit_count by exactly 1.
C4_Original_EveryUpdateCounts ==
    UpdateReturned => Post.TotalAuditCount = Pre.TotalAuditCount + 1

\* C4 (amended): no call lowers total_audit_count or removes the row; an Update
\* that returned without an error raised it by exactly 1 when the node was not
\* disqualified and left it alone when it was.
C4_AuditCountGrows ==
    /\ (call.op # "" /\ call.found # <<>>)
            => (HasRow(call.id) /\ Post.TotalAuditCount >= Pre.TotalAuditCount)
    /\ UpdateApplied => Post.TotalAuditCount = Pre.TotalAuditCount + 1
    /\ (UpdateReturned /\ Pre.Disqualified # NULL)
            => Post.TotalAuditCount = Pre.TotalAuditCount

C4_Witness ==
    /\ UpdateApplied /\ call.updateReq.AuditOutcome = AuditOffline
    /\ Pre.TotalAuditCount = 1 /\ Post.TotalAuditCount = 2

\* C5 (as claimed): after any Update that was applied the four weights are
\* strictly positive.
C5_Original_WeightsPositive ==
    UpdateApplied =>
        /\ Post.AuditReputationAlpha > 0 /\ Post.AuditReputationBeta > 0
        /\ Post.UnknownAuditReputationAlpha > 0 /\ Post.UnknownAuditReputationBeta > 0

\* C5 (amended): after any Update that was applied none of the four weights is
\* negative, and a weight that was positive before the call is positive after it.
C5_WeightsNotNegative ==
    UpdateApplied =>
        \A c \in {"AuditReputationAlpha", "AuditReputationBeta",
                  "UnknownAuditReputationAlpha", "UnknownAuditReputationBeta"} :
            /\ Post[c] >= 0
            /\ Pre[c] > 0 => Post[c] > 0

C5_Witness ==
    /\ UpdateApplied /\ call.updateReq.AuditOutcome = AuditFailure
    /\ call.updateReq.AuditLambda = Half
    /\ Pre.AuditReputationAlpha = One /\ Post.AuditReputationAlpha = Half
    /\ Pre.AuditReputationBeta = 0 /\ Post.AuditReputationBeta = One

\* C6 (as claimed): no call returns a disqualified node to not disqualified.
C6_Original_DisqualifiedForGood ==
    (call.op # "" /\ call.found # <<>> /\ Pre.Disqualified # NULL)
        => (HasRow(call.id) /\ Post.Disqualified # NULL)

\* C6 (amended): no call but SetNodeStatus returns a disqualified node to not
\* disqualified; SetNodeStatus leaves disqualified as its status argument has it.
C6_DisqualifiedUnlessStatusSet ==
    /\ (call.op \notin {"", "SetNodeStatus"} /\ call.found # <<>> /\ Pre.Disqualified # NULL)
            => (HasRow(call.id) /\ Post.Disqualified # NULL)
    /\ (call.op = "SetNodeStatus" /\ ~call.err /\ call.found # <<>>)
            => Post.Disqualified = call.status.Disqualified

C6_Witness ==
    /\ call.op = "UnsuspendNodeUnknownAudit" /\ ~call.err /\ call.found # <<>>
    /\ call.found[1].Disqualified # NULL /\ call.found[1].UnknownAuditSuspended # NULL
    /\ Post.Disqualified = call.found[1].Disqualified /\ Post.UnknownAuditSuspended = NULL

\* C7: an Update for a node whose vetted_at is set leaves vetted_at as it was.
C7_VettedAtKept ==
    (UpdateReturned /\ Pre.VettedAt # NULL) => Post.VettedAt = Pre.VettedAt

C7_Witness ==
    /\ UpdateApplied /\ Pre.VettedAt # NULL /\ Pre.VettedAt # At(call.now)
    /\ Post.TotalAuditCount >= call.updateReq.AuditsRequiredForVetting
    /\ Post.VettedAt = Pre.VettedAt

\* C8: an Update applied to a node with vetted_at unset sets vetted_at to now
\* when the new total_audit_count is at least AuditsRequiredForVetting, and
\* leaves it unset otherwise.
C8_VettedAtThreshold ==
    (UpdateApplied /\ Pre.VettedAt = NULL) =>
        Post.VettedAt = IF Pre.TotalAuditCount + 1 >= call.updateReq.AuditsRequiredForVetting
                        THEN At(call.now) ELSE NULL

C8_Witness ==
    /\ UpdateApplied /\ Pre.VettedAt = NULL
    /\ call.updateReq.AuditOutcome = AuditOffline
    /\ Pre.TotalAuditCount + 1 = call.updateReq.AuditsRequiredForVetting
    /\ Post.VettedAt = At(call.now)

C10_GracePeriodFromNow ==
    ( /\ UpdateApplied
      /\ call.updateReq.AuditOutcome # AuditSuccess
      /\ Pre.UnknownAuditSuspended # NULL
      /\ ScoreBelowDQ(Post.UnknownAuditReputationAlpha, Post.UnknownAuditReputationBeta)
      /\ call.updateReq.SuspensionDQEnabled
      /\ call.now - Pre.UnknownAuditSuspended[1] > call.updateReq.SuspensionGracePeriod )
        => (Post.Disqualified = At(call.now) /\ Post.UnknownAuditSuspended = NULL)

\* C15: an Update for a node without a row that returned without an error has
\* left a row with total_audit_count 1 and with the weights, vetted_at,
\* disqualified and unknown_audit_suspended that the outcome gives from the
\* zero-value row.
C15_FirstUpdateFromZero ==
    (UpdateReturned /\ call.found = <<>>) =>
        LET w == call.updateReq.AuditWeight
            o == call.updateReq.AuditOutcome
        IN  /\ HasRow(call.id)
            /\ Post.TotalAuditCount = 1
            /\ Post.AuditReputationAlpha = (IF o = AuditSuccess THEN w ELSE 0)
            /\ Post.AuditReputationBeta = (IF o = AuditFailure THEN w ELSE 0)
            /\ Post.UnknownAuditReputationAlpha = (IF o = AuditSuccess THEN w ELSE 0)
            /\ Post.UnknownAuditReputationBeta = (IF o = AuditUnknown THEN w ELSE 0)
            /\ Post.AuditSuccessCount = (IF o = AuditSuccess THEN 1 ELSE 0)
            /\ Post.VettedAt = (IF 1 >= call.updateReq.AuditsRequiredForVetting
                                THEN At(call.now) ELSE NULL)
            /\ Post.Disqualified = (IF o = AuditFailure THEN At(call.now) ELSE NULL)
            /\ Post.UnknownAuditSuspended = (IF o = AuditUnknown THEN At(call.now) ELSE NULL)
            /\ ~Post.Contained

C15_Witness ==
    /\ UpdateReturned /\ call.found = <<>>
    /\ call.updateReq.AuditOutcome = AuditUnknown /\ call.now # clock
    /\ Post.TotalAuditCount = 1 /\ Post.UnknownAuditSuspended = At(call.now)

\* C16: a DisqualifyNode that returned without an error has left a row, the one
\* the node had (the zero-value row if it had none) with disqualified set to the
\* time of the call and every other column as it was.
C16_DisqualifyNodeSetsOnlyDisqualified ==
    (call.op = "DisqualifyNode" /\ ~call.err) =>
        /\ HasRow(call.id)
        /\ Post = [Pre EXCEPT !.Disqualified = At(clock)]

\* A second disqualification, at another time.
C16_Witness ==
    /\ call.op = "DisqualifyNode" /\ ~call.err /\ call.found # <<>>
    /\ Pre.Disqualified # NULL /\ Pre.Disqualified # At(clock)
    /\ Pre.TotalAuditCount > 0
    /\ Post.Disqualified = At(clock)

\* C17: a SuspendNodeUnknownAudit that returned without an error has left the
\* row the node had (the zero-value row if it had none) with
\* unknown_audit_suspended set to suspendedAt, an UnsuspendNodeUnknownAudit the
\* same with unknown_audit_suspended NULL, every other column as it was: the
\* two in a row give back a row that was not suspended.
C17_SuspendSetsOnlySuspended ==
    /\ (call.op = "SuspendNodeUnknownAudit" /\ ~call.err) =>
            /\ HasRow(call.id)
            /\ Post = [Pre EXCEPT !.UnknownAuditSuspended = At(call.now)]
    /\ (call.op = "UnsuspendNodeUnknownAudit" /\ ~call.err) =>
            /\ HasRow(call.id)
            /\ Post = [Pre EXCEPT !.UnknownAuditSuspended = NULL]

C17_Witness ==
    /\ call.op = "SuspendNodeUnknownAudit" /\ ~call.err /\ call.found # <<>>
    /\ call.now # clock /\ Pre.TotalAuditCount > 0
    /\ Pre.UnknownAuditSuspended # At(call.now)
    /\ Post.UnknownAuditSuspended = At(call.now)

\* C18: a SetNodeStatus for a node with a row that returned without an error has
\* left the five status columns as its status argument has them, NULL for nil,
\* and every other column as it was.
C18_SetNodeStatusOverwrites ==
    (call.op = "SetNodeStatus" /\ ~call.err /\ call.found # <<>>) =>
        /\ HasRow(call.id)
        /\ getNodeStatus(Post) = call.status
        /\ Post = [Pre EXCEPT !.Contained = call.status.Contained,
                              !.Disqualified = call.status.Disqualified,
                              !.UnknownAuditSuspended = call.status.UnknownAuditSuspended,
                              !.OfflineSuspended = call.status.OfflineSuspended,
                              !.VettedAt = call.status.VettedAt]

C18_Witness ==
    /\ call.op = "SetNodeStatus" /\ ~call.err /\ call.found # <<>>
    /\ Pre.Disqualified # NULL /\ call.status.Disqualified = NULL
    /\ Pre.VettedAt = NULL /\ call.status.VettedAt # NULL
    /\ Pre.TotalAuditCount > 0
    /\ Post.Disqualified = NULL

\* C19: an Init that returned without an error found no row and left the
\* zero-value row; an Init for a node with a row returned an error and left the
\* row as it was. No call removes a row, so Init succeeds at most once for a node.
C19_InitOnce ==
    /\ (call.op = "Init" /\ ~call.err) => (call.found = <<>> /\ HasRow(call.id) /\ Post = ZeroRow)
    /\ (call.op = "Init" /\ call.found # <<>>) =>
            (call.err /\ HasRow(call.id) /\ Post = call.found[1])
    /\ (call.op # "" /\ call.found # <<>>) => HasRow(call.id)

C19_Witness ==
    /\ call.op = "Init" /\ call.err /\ call.found # <<>>
    /\ call.found[1].TotalAuditCount > 0
    /\ Post = call.found[1]

\* C20: a Get for a node without a row returned the not-found error (unless the
\* statement itself failed), a Get that returned without an error returned the
\* columns of the row; either way the table is as it was, without a row for a
\* node that had none.
C20_GetReadsOnly ==
    (call.op = "Get") =>
        /\ call.found = <<>> => (call.err /\ call.info = <<>>)
        /\ (call.found = <<>> /\ ~call.failed) => call.notFound
        /\ call.notFound => call.found = <<>>
        /\ ~call.err =>
              /\ call.found # <<>> /\ call.info # <<>>
              /\ \A c \in DOMAIN call.info[1] : call.info[1][c] = call.found[1][c]
        /\ HasRow(call.id) <=> call.found # <<>>
        /\ call.found # <<>> => Post = call.found[1]

C20_Witness ==
    /\ call.op = "Get" /\ ~call.err /\ call.found # <<>>
    /\ call.found[1].Disqualified # NULL /\ call.found[1].TotalAuditCount > 0
    /\ call.info[1].Disqualified = call.found[1].Disqualified
    /\ call.info[1].TotalAuditCount = call.found[1].TotalAuditCount

\* C14: a call for a node leaves the row of every other node as it was, and a
\* node without a row without one.
C14_OtherNodesUntouched ==
    [][\A b \in Nodes :
          call'.id # b => Get_Reputation_By_Id(b)' = Get_Reputation_By_Id(b)]_vars

C14_Witness ==
    /\ call.op = "Update" /\ ~call.err /\ call.id = "n1"
    /\ HasRow("n2") /\ reputations["n2"].TotalAuditCount > 0
    /\ reputations["n2"].Disqualified # NULL
    /\ Post.Disqualified = NULL /\ Post.Contained = FALSE /\ Pre.Contained

\* ------------------------------------------------------------ C11 (SpecTx)
AllReturned == \A p \in Procs : txs[p].pc = "returned"
Succeeded == {p \in Procs : txs[p].pc = "returned" /\ ~txs[p].err}
TxTarget == CHOOSE id \in Targets : TRUE
StartRow == IF TxTarget \in DOMAIN start THEN <<start[TxTarget]>> ELSE <<>>
CountOf(found) == IF found = <<>> THEN 0 ELSE found[1].TotalAuditCount

\* The row after the Update of caller p applied on its own to the row found;
\* an Update that returned an error applies nothing.
AppliedTo(found, p) ==
    IF txs[p].err THEN found
    ELSE <<AfterUpdate(found, txs[p].updateReq, txs[p].auditHistoryResponse, txs[p].now)>>

\* The Updates that returned without error and found the node not disqualified.
Counted == {p \in Succeeded : txs[p].found = <<>> \/ ~skipsUpdate(txs[p].found[1])}

\* C11 as stated, its count: when both Updates have returned, totalAuditCount
\* has grown by the number of Updates that returned without error.
C11_CountGrowsByReturned ==
    AllReturned =>
        CountOf(Get_Reputation_By_Id(TxTarget)) = CountOf(StartRow) + Cardinality(Succeeded)

\* C11, amended: when both racing Updates have returned, the record is the
\* one that applying the error-free Updates one after the other in some order
\* leaves; totalAuditCount has grown by the number of Updates that returned
\* without error and did not find the node disqualified; and every Update
\* that committed read the record that was in the table when it committed.
C11_RacingUpdatesSerialize ==
    /\ AllReturned =>
          /\ \E a \in Procs : \E b \in Procs \ {a} :
                Get_Reputation_By_Id(TxTarget) = AppliedTo(AppliedTo(StartRow, a), b)
          /\ CountOf(Get_Reputation_By_Id(TxTarget)) = CountOf(StartRow) + Cardinality(Counted)
    /\ \A p \in Procs : txs[p].committed => txs[p].found = txs[p].base

\* Both Updates ran at the same time and returned without error, with
\* different outcomes, the second on the record the first committed.
C11_Witness ==
    /\ AllReturned
    /\ Succeeded = Procs
    /\ txs["a1"].updateReq.AuditOutcome # txs["a2"].updateReq.AuditOutcome
    /\ txs["a1"].work # <<>>
    /\ txs["a2"].work # <<>>
    /\ txs["a2"].found = <<txs["a1"].work[1]>>
    /\ CountOf(Get_Reputation_By_Id(TxTarget)) = CountOf(StartRow) + 2

C13_FailedUpdateNotRetried ==
    \A p \in Procs :
        /\ txs[p].begun <= 1
        /\ (txs[p].pc = "returned" /\ txs[p].err) =>
              /\ txs[p].retStatus = <<>>
              /\ ~txs[p].changed
              /\ txs[p].begun = 1
              /\ ~txs[p].committed
              /\ txs[p].base = <<>>

\* An Update failed at its commit on an isolation conflict: the other Update
\* committed a change of the record it had read, and its own change of
\* status is not in the table.
C13_Witness ==
    \E p \in Procs : \E q \in Procs \ {p} :
        /\ txs[p].pc = "returned"
        /\ txs[p].err
        /\ txs[p].at = "commit"
        /\ txs[p].work # <<>>
        /\ txs[q].committed
        /\ txs[q].work # <<>>
        /\ txs[q].base = txs[p].found
        /\ txs[p].oldStatus # getNodeStatus(txs[p].dbNode[1])
        /\ Get_Reputation_By_Id(txs[p].id) = txs[q].work
        /\ txs[p].work # txs[q].work

\* ------------------------------------------------- C21..C30 (the audit rules)
\* The unknown-audit score after the call is at most AuditDQ.
UnknownBelowDQ ==
    ScoreBelowDQ(Post.UnknownAuditReputationAlpha, Post.UnknownAuditReputationBeta)
\* The offline criterion can disqualify under the configuration of the call.
OfflineDQPossible ==
    /\ call.updateReq.AuditHistory.OfflineSuspensionEnabled
    /\ call.updateReq.AuditHistory.OfflineDQEnabled
\* The call disqualified the node and neither the audit score (criterion A)
\* nor the offline criterion accounts for it.
DisqualifiedByCriterionB ==
    /\ UpdateApplied
    /\ Post.Disqualified # NULL
    /\ ~ScoreBelowDQ(Post.AuditReputationAlpha, Post.AuditReputationBeta)
    /\ ~OfflineDQPossible

\* C21 (as claimed): an Update disqualifies through criterion B only if the
\* outcome is not success, the node was suspended for unknown audits before the
\* call, the unknown-audit score after the update is at most AuditDQ,
\* suspension disqualification is enabled, and now is more than the grace
\* period after the suspension.
C21_CriterionBOnlyIf ==
    DisqualifiedByCriterionB =>
        /\ call.updateReq.AuditOutcome # AuditSuccess
        /\ Pre.UnknownAuditSuspended # NULL
        /\ UnknownBelowDQ
        /\ call.updateReq.SuspensionDQEnabled
        /\ call.now - Pre.UnknownAuditSuspended[1] > call.updateReq.SuspensionGracePeriod

\* Criterion B as the code decides it: the grace period is measured to the
\* wall clock.
CriterionBFires ==
    /\ call.updateReq.AuditOutcome # AuditSuccess
    /\ Pre.UnknownAuditSuspended # NULL
    /\ UnknownBelowDQ
    /\ call.updateReq.SuspensionDQEnabled
    /\ clock - Pre.UnknownAuditSuspended[1] > call.updateReq.SuspensionGracePeriod

C23_NeverDisqualifiedAndSuspended ==
    UpdateApplied => ~(Post.Disqualified # NULL /\ Post.UnknownAuditSuspended # NULL)

\* C24: an Update applied with a failure leaves the unknown-audit weights as
\* they were, with an unknown outcome the audit weights, and with an offline
\* outcome all four.
C24_OtherWeightsUntouched ==
    UpdateApplied =>
        /\ call.updateReq.AuditOutcome \in {AuditFailure, AuditOffline} =>
              /\ Post.UnknownAuditReputationAlpha = Pre.UnknownAuditReputationAlpha
              /\ Post.UnknownAuditReputationBeta = Pre.UnknownAuditReputationBeta
        /\ call.updateReq.AuditOutcome \in {AuditUnknown, AuditOffline} =>
              /\ Post.AuditReputationAlpha = Pre.AuditReputationAlpha
              /\ Post.AuditReputationBeta = Pre.AuditReputationBeta

\* A failure with lambda = 1/2 on a node with weights on both tracks: the
\* audit weights decay, the unknown-audit weights do not.
C24_Witness ==
    /\ UpdateApplied /\ call.updateReq.AuditOutcome = AuditFailure
    /\ call.updateReq.AuditLambda = Half
    /\ Pre.UnknownAuditReputationAlpha = One /\ Pre.AuditReputationAlpha = One
    /\ Post.UnknownAuditReputationAlpha = One /\ Post.AuditReputationAlpha = Half
    /\ Post.UnknownAuditReputationBeta = Pre.UnknownAuditReputationBeta

\* C25 (SpecInARow): an Update applied with a success leaves both pairs of
\* weights at (lambda * alpha + weight, lambda * beta), with a failure the
\* audit pair at (lambda * alpha, lambda * beta + weight), with an unknown
\* outcome the unknown-audit pair likewise; a success with lambda = 1 and
\* weight = 1 on weights that are all 1 leaves both alphas at 2 and both betas
\* at 1, with total_audit_count and audit_success_count one more each.
C25_BetaUpdate ==
    UpdateApplied =>
        LET lambda == call.updateReq.AuditLambda
            w == call.updateReq.AuditWeight
            o == call.updateReq.AuditOutcome
        IN  /\ o = AuditSuccess =>
                  /\ Post.AuditReputationAlpha = FMul(lambda, Pre.AuditReputationAlpha) + w
                  /\ Post.AuditReputationBeta = FMul(lambda, Pre.AuditReputationBeta)
                  /\ Post.UnknownAuditReputationAlpha
                       = FMul(lambda, Pre.UnknownAuditReputationAlpha) + w
                  /\ Post.UnknownAuditReputationBeta
                       = FMul(lambda, Pre.UnknownAuditReputationBeta)
            /\ o = AuditFailure =>
                  /\ Post.AuditReputationAlpha = FMul(lambda, Pre.AuditReputationAlpha)
                  /\ Post.AuditReputationBeta = FMul(lambda, Pre.AuditReputationBeta) + w
            /\ o = AuditUnknown =>
                  /\ Post.UnknownAuditReputationAlpha
                       = FMul(lambda, Pre.UnknownAuditReputationAlpha)
                  /\ Post.UnknownAuditReputationBeta
                       = FMul(lambda, Pre.UnknownAuditReputationBeta) + w
            /\ ( /\ o = AuditSuccess /\ lambda = One /\ w = One
                 /\ Pre.AuditReputationAlpha = One /\ Pre.AuditReputationBeta = One
                 /\ Pre.UnknownAuditReputationAlpha = One
                 /\ Pre.UnknownAuditReputationBeta = One )
                  => /\ Post.AuditReputationAlpha = 2 * One
                     /\ Post.AuditReputationBeta = One
                     /\ Post.UnknownAuditReputationAlpha = 2 * One
                     /\ Post.UnknownAuditReputationBeta = One
                     /\ Post.TotalAuditCount = Pre.TotalAuditCount + 1
                     /\ Post.AuditSuccessCount = Pre.AuditSuccessCount + 1

\* The success on weights that are all 1, after a success, a failure and an
\* unknown outcome.
C25_Witness ==
    /\ UpdateApplied /\ call.updateReq.AuditOutcome = AuditSuccess
    /\ call.updateReq.AuditLambda = One /\ call.updateReq.AuditWeight = One
    /\ Pre.AuditReputationAlpha = One /\ Pre.AuditReputationBeta = One
    /\ Pre.UnknownAuditReputationAlpha = One /\ Pre.UnknownAuditReputationBeta = One
    /\ Pre.TotalAuditCount = 3 /\ Pre.AuditSuccessCount = 1
    /\ Post.AuditReputationAlpha = 2 * One /\ Post.UnknownAuditReputationAlpha = 2 * One
    /\ Post.TotalAuditCount = 4 /\ Post.AuditSuccessCount = 2

\* C26: no call lowers audit_success_count; an Update that was applied raises
\* it by exactly 1 for a success and leaves it as it was for a failure, an
\* unknown and an offline outcome; audit_success_count is at most
\* total_audit_count in every row.
C26_SuccessCountGrows ==
    /\ (call.op # "" /\ call.found # <<>>)
          => (HasRow(call.id) /\ Post.AuditSuccessCount >= Pre.AuditSuccessCount)
    /\ UpdateApplied =>
          Post.AuditSuccessCount
            = Pre.AuditSuccessCount
                + (IF call.updateReq.AuditOutcome = AuditSuccess THEN 1 ELSE 0)
    /\ \A id \in DOMAIN reputations :
          reputations[id].AuditSuccessCount <= reputations[id].TotalAuditCount

\* A failure after a success: the count of successes stays at 1.
C26_Witness ==
    /\ UpdateApplied /\ call.updateReq.AuditOutcome = AuditFailure
    /\ Pre.AuditSuccessCount = 1 /\ Post.AuditSuccessCount = 1
    /\ Post.TotalAuditCount = 2

\* C27 (as claimed): after an Update that was applied, last_contact_success is
\* now when the outcome is not offline and last_contact_failure is now when it
\* is offline; the other of the two is as it was.
C27_LastContactStored ==
    UpdateApplied =>
        IF call.updateReq.AuditOutcome # AuditOffline
        THEN /\ Post.LastContactSuccess = At(call.now)
             /\ Post.LastContactFailure = Pre.LastContactFailure
        ELSE /\ Post.LastContactFailure = At(call.now)
             /\ Post.LastContactSuccess = Pre.LastContactSuccess

\* ------------------------------------------------------- C28..C30 (SpecReview)
\* The disqualification the call left is accounted for by criterion A or B.
DisqualifiedByAudits ==
    \/ ScoreBelowDQ(Post.AuditReputationAlpha, Post.AuditReputationBeta)
    \/ CriterionBFires
\* penalize, from the arguments of the call.
Penalize ==
    /\ call.auditHistoryResponse.NewScore < call.updateReq.AuditHistory.OfflineThreshold
    /\ call.auditHistoryResponse.TrackingPeriodFull

\* C28: an Update applied with offline suspension disabled leaves
\* offline_suspended and under_review NULL, whatever they were and whatever
\* the tracker answered, and disqualifies only by criterion A or B.
C28_OfflineDisabledClears ==
    (UpdateApplied /\ ~call.updateReq.AuditHistory.OfflineSuspensionEnabled) =>
        /\ Post.OfflineSuspended = NULL
        /\ Post.UnderReview = NULL
        /\ Post.Disqualified # NULL => DisqualifiedByAudits

\* A node under review and suspended, with a score that would be penalized.
C28_Witness ==
    /\ UpdateApplied /\ ~call.updateReq.AuditHistory.OfflineSuspensionEnabled
    /\ Penalize
    /\ Pre.OfflineSuspended # NULL /\ Pre.UnderReview # NULL
    /\ Post.OfflineSuspended = NULL /\ Post.UnderReview = NULL
    /\ Post.Disqualified = NULL

\* C29 (as claimed): an Update applied with offline suspension disabled leaves
\* online_score and the audit history as they were.
C29_Original_DisabledLeavesScore ==
    (UpdateApplied /\ ~call.updateReq.AuditHistory.OfflineSuspensionEnabled) =>
        /\ Post.OnlineScore = Pre.OnlineScore
        /\ Post.AuditHistory = Pre.AuditHistory

\* C29 (amended): every Update that was applied, with offline suspension
\* enabled or disabled, leaves online_score at the score the tracker returned
\* and the audit history with the observation added.
C29_ScoreAlwaysWritten ==
    UpdateApplied =>
        /\ Post.OnlineScore = call.auditHistoryResponse.NewScore
        /\ Post.AuditHistory = Pre.AuditHistory + 1

\* Offline suspension is disabled and the score changes.
C29_Witness ==
    /\ UpdateApplied /\ ~call.updateReq.AuditHistory.OfflineSuspensionEnabled
    /\ call.found # <<>>
    /\ Pre.OnlineScore = Half /\ call.auditHistoryResponse.NewScore = Zero
    /\ Post.OnlineScore = Zero
    /\ Post.AuditHistory = Pre.AuditHistory + 1

\* C30: an Update applied with offline suspension enabled to a node that is
\* not under review leaves under_review and offline_suspended at now when
\* penalize holds, without an offline disqualification in that call, and as
\* they were when it does not.
C30_ReviewBegins ==
    ( /\ UpdateApplied
      /\ call.updateReq.AuditHistory.OfflineSuspensionEnabled
      /\ Pre.UnderReview = NULL ) =>
        IF Penalize
        THEN /\ Post.UnderReview = At(call.now)
             /\ Post.OfflineSuspended = At(call.now)
             /\ Post.Disqualified # NULL => DisqualifiedByAudits
        ELSE /\ Post.UnderReview = Pre.UnderReview
             /\ Post.OfflineSuspended = Pre.OfflineSuspended

\* The review begins for a node that was suspended for being offline at
\* another time, under a configuration that disqualifies offline nodes.
C30_Witness ==
    /\ UpdateApplied /\ call.updateReq.AuditHistory.OfflineSuspensionEnabled
    /\ call.updateReq.AuditHistory.OfflineDQEnabled
    /\ Pre.UnderReview = NULL /\ Penalize
    /\ Pre.OfflineSuspended # NULL /\ Pre.OfflineSuspended # At(call.now)
    /\ Post.UnderReview = At(call.now) /\ Post.OfflineSuspended = At(call.now)
    /\ Post.Disqualified = NULL

\* ------------------------------------------- C31..C38 (the review window)
\* The Update was applied, with offline suspension enabled, to a node under
\* review.
UnderReviewUpdate ==
    /\ UpdateApplied
    /\ call.updateReq.AuditHistory.OfflineSuspensionEnabled
    /\ Pre.UnderReview # NULL
\* underReview + offlineGracePeriod + offlineTrackingPeriod
TrackEnd ==
    Pre.UnderReview[1] + call.updateReq.AuditHistory.GracePeriod
        + call.updateReq.AuditHistory.TrackingPeriod
\* The offline criterion of the claims: the window has elapsed at now, penalize
\* holds and offline disqualification is enabled.
OfflineCriterionFires ==
    /\ call.now > TrackEnd
    /\ Penalize
    /\ call.updateReq.AuditHistory.OfflineDQEnabled

\* C31: an Update applied with offline suspension enabled to a node under
\* review leaves disqualified at now when now is after underReview + grace
\* period + tracking period, penalize holds and offline disqualification is
\* enabled; when one of the three does not hold (now at the end of the window
\* or before it, for one) and neither criterion A nor B fires, the node is
\* left not disqualified.
C31_OfflineDisqualification ==
    UnderReviewUpdate =>
        /\ OfflineCriterionFires => Post.Disqualified = At(call.now)
        /\ (~OfflineCriterionFires /\ ~DisqualifiedByAudits) => Post.Disqualified = NULL

\* The offline criterion alone disqualifies, at a now that differs from the
\* wall clock or not.
C31_Witness ==
    /\ UnderReviewUpdate
    /\ call.now > TrackEnd /\ Penalize /\ call.updateReq.AuditHistory.OfflineDQEnabled
    /\ ~DisqualifiedByAudits
    /\ Post.Disqualified = At(call.now)

\* C32: an Update applied with offline suspension enabled to a node under
\* review, at a now after underReview + grace period + tracking period and
\* without penalize, leaves under_review and offline_suspended NULL; at a now
\* that is not after the end of the window it leaves under_review as it was.
C32_ReleasedAfterWindow ==
    UnderReviewUpdate =>
        /\ (call.now > TrackEnd /\ ~Penalize)
              => (Post.UnderReview = NULL /\ Post.OfflineSuspended = NULL)
        /\ ~(call.now > TrackEnd) => Post.UnderReview = Pre.UnderReview

\* A suspended node under review is released without being disqualified.
C32_Witness ==
    /\ UnderReviewUpdate
    /\ call.now > TrackEnd /\ ~Penalize
    /\ Pre.OfflineSuspended # NULL
    /\ Post.UnderReview = NULL /\ Post.OfflineSuspended = NULL
    /\ Post.Disqualified = NULL

\* C33: an Update applied with offline suspension enabled to a node under
\* review, at a now that is not after the end of the review window, leaves
\* offline_suspended set exactly when penalize holds: at now when penalize
\* holds and it was NULL, NULL when penalize does not hold, and as it was when
\* penalize holds and it was set; under_review is left as it was.
C33_SuspensionFollowsPenalize ==
    (UnderReviewUpdate /\ ~(call.now > TrackEnd)) =>
        /\ Post.OfflineSuspended # NULL <=> Penalize
        /\ (Penalize /\ Pre.OfflineSuspended = NULL) => Post.OfflineSuspended = At(call.now)
        /\ (Penalize /\ Pre.OfflineSuspended # NULL)
              => Post.OfflineSuspended = Pre.OfflineSuspended
        /\ ~Penalize => Post.OfflineSuspended = NULL
        /\ Post.UnderReview = Pre.UnderReview

\* A node whose suspension was lifted during the review is suspended again,
\* at a time later than the beginning of the review.
C33_Witness ==
    /\ UnderReviewUpdate
    /\ ~(call.now > TrackEnd)
    /\ Penalize /\ Pre.OfflineSuspended = NULL
    /\ Pre.UnderReview # At(call.now)
    /\ Post.OfflineSuspended = At(call.now)
    /\ Post.UnderReview = Pre.UnderReview

\* Criterion B as the claims state it: the grace period is measured to now.
CriterionBByNow ==
    /\ call.updateReq.AuditOutcome # AuditSuccess
    /\ Pre.UnknownAuditSuspended # NULL
    /\ UnknownBelowDQ
    /\ call.updateReq.SuspensionDQEnabled
    /\ call.now - Pre.UnknownAuditSuspended[1] > call.updateReq.SuspensionGracePeriod
\* The offline criterion, for a node under review with offline suspension
\* enabled.
OfflineCriterion ==
    /\ call.updateReq.AuditHistory.OfflineSuspensionEnabled
    /\ Pre.UnderReview # NULL
    /\ OfflineCriterionFires

\* C34 (as claimed): an Update that was applied leaves the node disqualified
\* only if the audit score after the update is at most AuditDQ (criterion A),
\* or criterion B holds with its grace period measured to now, or the offline
\* criterion holds; every other Update that was applied leaves disqualified
\* NULL.
C34_DisqualifiedOnlyByCriteria ==
    (UpdateApplied /\ Post.Disqualified # NULL) =>
        \/ ScoreBelowDQ(Post.AuditReputationAlpha, Post.AuditReputationBeta)
        \/ CriterionBByNow
        \/ OfflineCriterion

\* C35 (SpecAudits: Updates alone, from no record): in every state, a record
\* whose offline_suspended is set has under_review set.
C35_SuspendedOnlyUnderReview ==
    \A id \in DOMAIN reputations :
        reputations[id].OfflineSuspended # NULL => reputations[id].UnderReview # NULL

\* A node suspended again during its review, later than the review began,
\* by an Update that followed one with offline suspension enabled that had
\* lifted the suspension.
C35_Witness ==
    /\ UpdateApplied
    /\ Pre.UnderReview # NULL /\ Pre.OfflineSuspended = NULL
    /\ Post.OfflineSuspended # NULL /\ Post.UnderReview # NULL
    /\ Post.OfflineSuspended # Post.UnderReview

\* C36: an Update for a node whose under_review is set leaves under_review as
\* it was or NULL, whatever the outcome, the configuration and now.
C36_UnderReviewNotMoved ==
    (UpdateReturned /\ call.found # <<>> /\ Pre.UnderReview # NULL) =>
        \/ Post.UnderReview = Pre.UnderReview
        \/ Post.UnderReview = NULL

\* The suspension is lifted during the review, at a now later than its
\* beginning, and the review keeps its time.
C36_Witness ==
    /\ UnderReviewUpdate
    /\ ~Penalize /\ Pre.OfflineSuspended # NULL
    /\ call.now > Pre.UnderReview[1] /\ ~(call.now > TrackEnd)
    /\ Post.OfflineSuspended = NULL
    /\ Post.UnderReview = Pre.UnderReview

\* C38: an Update applied with offline suspension enabled and offline
\* disqualification disabled to a node under review, at a now after the end of
\* the review window and with penalize, leaves under_review as it was and
\* offline_suspended set (as it was, or at now if it was NULL), and leaves the
\* node disqualified only if criterion A or B fired; the record such an Update
\* leaves is under review with its window elapsed again, so the same holds of
\* the next one.
C38_HeldUnderReview ==
    ( /\ UnderReviewUpdate
      /\ call.now > TrackEnd
      /\ Penalize
      /\ ~call.updateReq.AuditHistory.OfflineDQEnabled ) =>
        /\ Post.UnderReview = Pre.UnderReview
        /\ Post.OfflineSuspended =
              (IF Pre.OfflineSuspended = NULL THEN At(call.now) ELSE Pre.OfflineSuspended)
        /\ Post.Disqualified # NULL => DisqualifiedByAudits

\* The third audit or a later one of a node that stays suspended and under
\* review after the window, not disqualified.
C38_Witness ==
    /\ UnderReviewUpdate
    /\ call.now > TrackEnd /\ Penalize /\ ~call.updateReq.AuditHistory.OfflineDQEnabled
    /\ Pre.TotalAuditCount >= 2
    /\ Pre.OfflineSuspended # NULL
    /\ Post.UnderReview = Pre.UnderReview /\ Post.OfflineSuspended = Pre.OfflineSuspended
    /\ Post.Disqualified = NULL

\* ------------------------------------------------------ C37 (SpecDirect)
\* C37: an Update for a node whose unknown_audit_suspended is set leaves
\* unknown_audit_suspended as it was or NULL, whatever the outcome and now.
C37_SuspensionNotMoved ==
    (UpdateReturned /\ call.found # <<>> /\ Pre.UnknownAuditSuspended # NULL) =>
        \/ Post.UnknownAuditSuspended = Pre.UnknownAuditSuspended
        \/ Post.UnknownAuditSuspended = NULL

\* An unknown audit of a suspended node, at a now other than the time of the
\* suspension, leaves the node suspended since that time and not disqualified.
C37_Witness ==
    /\ UpdateApplied
    /\ Pre.UnknownAuditSuspended # NULL
    /\ call.updateReq.AuditOutcome = AuditUnknown
    /\ Pre.UnknownAuditSuspended # At(call.now)
    /\ Post.UnknownAuditSuspended = Pre.UnknownAuditSuspended
    /\ Post.Disqualified = NULL

\* ------------------------------------------------------ C39 (SpecFailing)
\* C39 (SpecFailing): a node that is not disqualified and whose audits all
\* fail from now on, under any lambda of (0, 1] with AuditWeight and AuditDQ
\* positive, is disqualified after finitely many of them and stays
\* disqualified from then on.
C39_FailuresDisqualify ==
    <>[](\A id \in Targets : IsDisqualified(id))

\* A node with a success behind it that one failure did not disqualify is
\* disqualified by a later one.
C39_Witness ==
    /\ UpdateApplied
    /\ call.updateReq.AuditOutcome = AuditFailure
    /\ Pre.AuditReputationAlpha > 0 /\ Pre.AuditReputationBeta > 0
    /\ Post.Disqualified # NULL
====
